---- MODULE Spec2Model ----
(***************************************************************************)
(* Model of har-images (src/har-images/bin/har-images.js): an interactive  *)
(* tool that extracts the image payloads of a HAR capture, filters them by *)
(* glob-like filename patterns, writes them to an output directory and     *)
(* optionally bundles them into a ZIP archive.                             *)
(*                                                                         *)
(* Strings are sequences of one-character strings.                         *)
(***************************************************************************)
EXTENDS Integers, Sequences, FiniteSets, TLC

VARIABLES
    \* ---- matchPattern exercised on its own (specification SpecMatch)
    mPc, mPattern, mFilename, mResult,
    \* ---- the environment of one run of main()
    platform,      \* "posix" | "win32": which path module path.join is
    harOnDisk,     \* what the resolved HAR path holds on disk
    \* ---- main()'s locals and its position
    pc, patternInput, patterns, showProgress, createZip, zipFileName,
    entries, next, candidates, total, count, zip,
    \* ---- observable effects
    prompts,       \* number of questions asked so far
    outDirMade,    \* fs.mkdirSync(outDir) returned
    harRead,       \* fs.readFileSync(harPath) returned
    disk,          \* the writes fs.writeFileSync performed, in order
    zipWrites,     \* the archives written to zipPath, in order
    console,       \* the lines printed that the properties speak of
    exits,         \* the exit codes the process ended with, in order
    fatal          \* what made the run fail, "none" if nothing did

matchVars == <<mPc, mPattern, mFilename, mResult>>
mainVars == <<platform, harOnDisk, pc, patternInput, patterns, showProgress, createZip,
              zipFileName, entries, next, candidates, total, count, zip,
              prompts, outDirMade, harRead, disk, zipWrites, console,
              exits, fatal>>
vars == <<matchVars, mainVars>>

----------------------------------------------------------------------------
(* Bounds of the model *)

MaxPatLen == 3
MaxNameLen == 3
MaxEntries == 2

----------------------------------------------------------------------------
(* Strings *)

UpperCase == <<"A","B","C","D","E","F","G","H","I","J","K","L","M",
               "N","O","P","Q","R","S","T","U","V","W","X","Y","Z">>
LowerCase == <<"a","b","c","d","e","f","g","h","i","j","k","l","m",
               "n","o","p","q","r","s","t","u","v","w","x","y","z">>
Digits == <<"0","1","2","3","4","5","6","7","8","9">>

Range(s) == {s[k] : k \in 1..Len(s)}

toLowerCaseChar(c) ==
    IF \E k \in 1..26 : UpperCase[k] = c
    THEN LowerCase[CHOOSE k \in 1..26 : UpperCase[k] = c]
    ELSE c

toUpperCaseChar(c) ==
    IF \E k \in 1..26 : LowerCase[k] = c
    THEN UpperCase[CHOOSE k \in 1..26 : LowerCase[k] = c]
    ELSE c

toLowerCase(s) == [k \in 1..Len(s) |-> toLowerCaseChar(s[k])]

startsWith(s, prefix) ==
    /\ Len(prefix) <= Len(s)
    /\ SubSeq(s, 1, Len(prefix)) = prefix

endsWith(s, suffix) ==
    /\ Len(suffix) <= Len(s)
    /\ SubSeq(s, Len(s) - Len(suffix) + 1, Len(s)) = suffix

\* s.split(sep) for a one-character separator: the pieces between separators
RECURSIVE split(_, _)
split(s, sep) ==
    IF \A k \in 1..Len(s) : s[k] # sep
    THEN <<s>>
    ELSE LET k == CHOOSE j \in 1..Len(s) :
                      /\ s[j] = sep
                      /\ \A h \in 1..(j-1) : s[h] # sep
         IN <<SubSeq(s, 1, k-1)>> \o split(SubSeq(s, k+1, Len(s)), sep)

\* String.prototype.trim over the whitespace the model uses
IsSpace(c) == c = " "

RECURSIVE trim(_)
trim(s) ==
    IF s = <<>> THEN s
    ELSE IF IsSpace(Head(s)) THEN trim(Tail(s))
    ELSE IF IsSpace(s[Len(s)]) THEN trim(SubSeq(s, 1, Len(s)-1))
    ELSE s

\* the flattening of a sequence of strings
RECURSIVE Concat(_)
Concat(ss) == IF ss = <<>> THEN <<>> ELSE Head(ss) \o Concat(Tail(ss))

\* all strings over alphabet of length lo..hi
StringsOver(alphabet, lo, hi) ==
    UNION {[1..n -> alphabet] : n \in lo..hi}

----------------------------------------------------------------------------
(* matchPattern: the glob pattern is rewritten into the source text of a   *)
(* regular expression, which is compiled and tested against the filename.  *)

RegexSpecial == {".", "+", "?", "^", "$", "{", "}", "(", ")", "|", "[", "]", "\\"}

\* a variant of the character class that forgets the dot
RegexSpecialNoDot == RegexSpecial \ {"."}

\* the characters .replace(/[.+?^${}()|[\]\\]/g, "\\$&") escapes
EscapedChars == RegexSpecial

\* pattern.replace(/[.+?^${}()|[\]\\]/g, "\\$&")
escapeRegexChars(pattern) ==
    Concat([k \in 1..Len(pattern) |->
              IF pattern[k] \in EscapedChars
              THEN <<"\\", pattern[k]>>
              ELSE <<pattern[k]>>])

\* .replace(/\*/g, ".*")
starToDotStar(s) ==
    Concat([k \in 1..Len(s) |-> IF s[k] = "*" THEN <<".", "*">> ELSE <<s[k]>>])

\* "^" + ... + "$"
regexSource(pattern) ==
    <<"^">> \o starToDotStar(escapeRegexChars(pattern)) \o <<"$">>

\* new RegExp(source): the atoms of the expression, each with its quantifier.
\* kind "bol"/"eol" are the anchors, "any" is the dot, "lit" a literal.
Quantifier == {"*", "+", "?"}

RECURSIVE compile(_)
compile(src) ==
    IF src = <<>> THEN <<>>
    ELSE LET c == Head(src)
             escaped == c = "\\" /\ Len(src) >= 2
             atomLen == IF escaped THEN 2 ELSE 1
             atom == IF escaped THEN [kind |-> "lit", ch |-> src[2]]
                     ELSE IF c = "." THEN [kind |-> "any", ch |-> c]
                     ELSE IF c = "^" THEN [kind |-> "bol", ch |-> c]
                     ELSE IF c = "$" THEN [kind |-> "eol", ch |-> c]
                     ELSE [kind |-> "lit", ch |-> c]
             quantified == /\ Len(src) > atomLen
                           /\ src[atomLen + 1] \in Quantifier
                           /\ atom.kind \in {"lit", "any"}
             q == IF quantified THEN src[atomLen + 1] ELSE "1"
             used == IF quantified THEN atomLen + 1 ELSE atomLen
         IN <<[kind |-> atom.kind, ch |-> atom.ch, q |-> q]>>
              \o compile(SubSeq(src, used + 1, Len(src)))

LineTerminator == {"\n", "\r"}

\* one atom against one character, under the "i" flag
atomMatches(atom, c) ==
    IF atom.kind = "any" THEN c \notin LineTerminator
    ELSE toUpperCaseChar(atom.ch) = toUpperCaseChar(c)

\* backtracking match of atoms[ai..] against s from position si
RECURSIVE matchFrom(_, _, _, _)
matchFrom(atoms, ai, s, si) ==
    IF ai > Len(atoms) THEN TRUE
    ELSE LET a == atoms[ai]
             here == si <= Len(s) /\ atomMatches(a, s[si])
         IN CASE a.kind = "bol" -> si = 1 /\ matchFrom(atoms, ai + 1, s, si)
              [] a.kind = "eol" -> si = Len(s) + 1 /\ matchFrom(atoms, ai + 1, s, si)
              [] a.q = "1" -> here /\ matchFrom(atoms, ai + 1, s, si + 1)
              [] a.q = "*" -> \/ (here /\ matchFrom(atoms, ai, s, si + 1))
                              \/ matchFrom(atoms, ai + 1, s, si)
              [] a.q = "+" -> here /\ (\/ matchFrom(atoms, ai, s, si + 1)
                                       \/ matchFrom(atoms, ai + 1, s, si + 1))
              [] OTHER     -> \/ (here /\ matchFrom(atoms, ai + 1, s, si + 1))
                              \/ matchFrom(atoms, ai + 1, s, si)

\* regex.test(filename): a match starting anywhere
regexTest(atoms, s) == \E start \in 1..(Len(s) + 1) : matchFrom(atoms, 1, s, start)

\* patterns.some(pattern => new RegExp(...,"i").test(filename))
matchPattern(filename, pats) ==
    \E k \in 1..Len(pats) : regexTest(compile(regexSource(pats[k])), filename)

----------------------------------------------------------------------------
(* Filenames *)

SafeChars == Range(UpperCase) \cup Range(LowerCase) \cup Range(Digits)
               \cup {".", "_", "-"}

IMAGE == <<"i","m","a","g","e">>

\* name.split("/").filter(Boolean).pop()
lastSegment(name) ==
    LET segs == SelectSeq(split(name, "/"), LAMBDA x : x # <<>>)
    IN IF segs = <<>> THEN <<>> ELSE segs[Len(segs)]

\* name.replace(/[^a-zA-Z0-9._-]/g, "_")
replaceUnsafe(name) ==
    [k \in 1..Len(name) |-> IF name[k] \in SafeChars THEN name[k] ELSE "_"]

safeFilename(name) ==
    LET n1 == split(split(name, "?")[1], "#")[1]
        seg == lastSegment(n1)
        n2 == IF seg = <<>> THEN IMAGE ELSE seg
        n3 == replaceUnsafe(n2)
    IN IF n3 = <<>> THEN IMAGE ELSE n3

IMAGE_SLASH == IMAGE \o <<"/">>

extensionFromMime(mime) ==
    IF mime = <<>> THEN <<>>
    ELSE IF mime = IMAGE_SLASH \o <<"j","p","e","g">> THEN <<".","j","p","g">>
    ELSE IF mime = IMAGE_SLASH \o <<"p","n","g">> THEN <<".","p","n","g">>
    ELSE IF mime = IMAGE_SLASH \o <<"g","i","f">> THEN <<".","g","i","f">>
    ELSE IF mime = IMAGE_SLASH \o <<"w","e","b","p">> THEN <<".","w","e","b","p">>
    ELSE IF mime = IMAGE_SLASH \o <<"s","v","g","+","x","m","l">> THEN <<".","s","v","g">>
    ELSE IF startsWith(mime, IMAGE_SLASH) THEN <<".">> \o split(mime, "/")[2]
    ELSE <<>>

\* lines 154-158: the base name with the mime's extension appended unless it
\* already ends with it
finalNameOf(baseName, mime) ==
    LET ext == extensionFromMime(mime)
    IN IF ~endsWith(toLowerCase(baseName), toLowerCase(ext)) /\ ext # <<>>
       THEN baseName \o ext
       ELSE baseName

\* String(n) for a natural number
RECURSIVE String(_)
String(n) ==
    IF n < 10 THEN <<Digits[n + 1]>>
    ELSE String(n \div 10) \o <<Digits[(n % 10) + 1]>>

PadWidth == 3

\* s.padStart(width, "0")
padStart(s, width) ==
    [k \in 1..(IF Len(s) < width THEN width - Len(s) ELSE 0) |-> "0"] \o s

\* an index that is not padded
outFileUnpadded(cnt, finalName) == String(cnt) \o <<"-">> \o finalName

\* lines 160-161
outFileOf(cnt, finalName) ==
    padStart(String(cnt), PadWidth) \o <<"-">> \o finalName

\* the characters the platform's path module takes for separators
Separators(plat) == IF plat = "win32" THEN {"/", "\\"} ELSE {"/"}

RECURSIVE splitPath(_, _)
splitPath(s, seps) ==
    IF \A k \in 1..Len(s) : s[k] \notin seps
    THEN <<s>>
    ELSE LET k == CHOOSE j \in 1..Len(s) :
                      /\ s[j] \in seps
                      /\ \A h \in 1..(j-1) : s[h] \notin seps
         IN <<SubSeq(s, 1, k-1)>> \o splitPath(SubSeq(s, k+1, Len(s)), seps)

\* normalisation of the components of an absolute path: "" and "." vanish,
\* ".." drops the component before it (and nothing at the root)
RECURSIVE normalize(_, _)
normalize(done, todo) ==
    IF todo = <<>> THEN done
    ELSE LET c == Head(todo)
         IN IF c = <<>> \/ c = <<".">> THEN normalize(done, Tail(todo))
            ELSE IF c = <<".", ".">>
                 THEN normalize(IF done = <<>> THEN done
                                ELSE SubSeq(done, 1, Len(done) - 1), Tail(todo))
            ELSE normalize(Append(done, c), Tail(todo))

\* the output directory path.resolve gave: absolute, as its components
OutDir == << <<"w">>, <<"i","m","g">> >>

\* path.join(outDir, outFile), as the components of the absolute result
pathJoin(plat, dir, file) == normalize(dir, splitPath(file, Separators(plat)))

----------------------------------------------------------------------------
(* The inputs of a run: the HAR file and the operator's answers *)

Entry(url, hasContent, mimeType, text, encoding) ==
    [url |-> url, hasContent |-> hasContent, mimeType |-> mimeType,
     text |-> text, encoding |-> encoding]

JPEG == IMAGE_SLASH \o <<"j","p","e","g">>
PNG == IMAGE_SLASH \o <<"p","n","g">>
BASE64 == <<"b","a","s","e","6","4">>

\* /p/x-web.jpg#/f : a jpeg, base64
EWeb == Entry(<<"/","p","/","x","-","w","e","b",".","j","p","g","#","/","f">>,
              TRUE, JPEG, <<"a","a">>, BASE64)
\* /b.PNG?u=/z : a png given as text
EPng == Entry(<<"/","b",".","P","N","G","?","u","=","/","z">>,
              TRUE, PNG, <<"h","i">>, <<>>)
\* /b-web.jpg served as text/html
EHtml == Entry(<<"/","b","-","w","e","b",".","j","p","g">>,
               TRUE, <<"t","e","x","t","/","h","t","m","l">>, <<"t">>, <<>>)
\* /c-web.jpg : a jpeg whose content has no text
ENoText == Entry(<<"/","c","-","w","e","b",".","j","p","g">>,
                 TRUE, JPEG, <<>>, BASE64)
\* an entry without a request URL
ENoUrl == Entry(<<>>, TRUE, PNG, <<"h","i">>, <<>>)
\* an entry without a response content block
ENoContent == Entry(<<"/","b",".","p","n","g">>, FALSE, <<>>, <<>>, <<>>)
\* /b with mime image/x\..\..\e
ETrav == Entry(<<"/","b">>, TRUE,
               IMAGE_SLASH \o <<"x","\\",".",".","\\",".",".","\\","e">>,
               <<"z">>, <<>>)
\* ?q with mime image/ : no path and an empty subtype
EOdd == Entry(<<"?","q">>, TRUE, IMAGE_SLASH, <<"o">>, BASE64)

EntryKinds == {EWeb, EPng, EHtml, ENoText, ENoUrl, ENoContent, ETrav, EOdd}

EntryLists == UNION {[1..n -> EntryKinds] : n \in 0..MaxEntries}

\* What the resolved HAR path holds: nothing, something that cannot be read
\* (a directory, a file without read permission), text that is not JSON, or a
\* JSON document: without log.entries, with a log.entries that is no array,
\* or with an array of entries.
HarFiles ==
    {[state |-> st, items |-> <<>>] :
        st \in {"missing", "unreadable", "badjson", "nolog", "notiterable"}}
    \cup {[state |-> "array", items |-> es] : es \in EntryLists}

PatternAnswers ==
    { <<>>, <<" ">>, <<",">>, <<",", " ", ",">>,
      <<"*",".","p","n","g",","," ","b","*">>, <<"*">> }
ProgressAnswers == { <<>>, <<"n">>, <<"N","o">>, <<"x">> }
ZipAnswers == { <<>>, <<"y">>, <<"Y","E","S">>, <<"n">> }
ZipNameAnswers == { <<>>, <<"a">>, <<"b",".","Z","I","P">> }

\* ask(): the answer typed, trimmed (line 17)
ask(answer) == trim(answer)

DefaultPattern == <<"*","-","w","e","b",".","j","p","g">>
DefaultZipName == <<"i","m","a","g","e","s",".","z","i","p">>
DotZip == <<".","z","i","p">>

\* lines 79-82
parsePatterns(input) ==
    LET text == IF input = <<>> THEN DefaultPattern ELSE input
        parts == split(text, ",")
        trimmed == [k \in 1..Len(parts) |-> trim(parts[k])]
    IN SelectSeq(trimmed, LAMBDA x : x # <<>>)

\* line 85: !/^n(o)?$/i.test(pbInput)
progressWanted(pbInput) == toLowerCase(pbInput) \notin {<<"n">>, <<"n","o">>}

\* line 88: /^y(es)?$/i.test(zipInput)
zipWanted(zipInput) == toLowerCase(zipInput) \in {<<"y">>, <<"y","e","s">>}

\* lines 90-98
zipFileNameOf(zName) ==
    IF zName = <<>> THEN DefaultZipName
    ELSE IF endsWith(toLowerCase(zName), DotZip) THEN zName
    ELSE zName \o DotZip

\* Buffer.from(text, encoding): the bytes, kept as the decoding applied
BufferFrom(text, encoding) == [decoded |-> encoding, from |-> text]

\* lines 148-152
bufferOf(item) ==
    IF item.encoding = BASE64
    THEN BufferFrom(item.text, "base64")
    ELSE BufferFrom(item.text, "utf8")

\* a first pass that forgets to look at content.text
candidateOfAnyText(entry, pats, at) ==
    LET mime == IF entry.hasContent THEN entry.mimeType ELSE <<>>
        baseName == safeFilename(split(entry.url, "?")[1])
    IN IF entry.url = <<>> \/ ~startsWith(mime, IMAGE_SLASH) THEN <<>>
       ELSE IF ~matchPattern(baseName, pats) THEN <<>>
       ELSE <<[reqUrl |-> entry.url, text |-> entry.text,
               encoding |-> entry.encoding, mime |-> mime,
               baseName |-> baseName, at |-> at]>>

\* lines 110-122: the candidate an entry yields, if any (at most one);
\* at is the entry's position in the HAR
candidateOf(entry, pats, at) ==
    LET reqUrl == entry.url
        mime == IF entry.hasContent THEN entry.mimeType ELSE <<>>
        cleanUrl == split(reqUrl, "?")[1]
        baseName == safeFilename(cleanUrl)
    IN IF reqUrl = <<>> \/ ~startsWith(mime, IMAGE_SLASH) THEN <<>>
       ELSE IF ~entry.hasContent \/ entry.text = <<>> THEN <<>>
       ELSE IF ~matchPattern(baseName, pats) THEN <<>>
       ELSE <<[reqUrl |-> reqUrl, text |-> entry.text,
               encoding |-> entry.encoding, mime |-> mime,
               baseName |-> baseName, at |-> at]>>

\* JSZip's file(name, data): a new entry, or the entry of that name replaced
zipFile(z, name, data) ==
    IF \E k \in 1..Len(z) : z[k].name = name
    THEN [k \in 1..Len(z) |->
            IF z[k].name = name THEN [name |-> name, data |-> data] ELSE z[k]]
    ELSE Append(z, [name |-> name, data |-> data])

Line(what, n) == [line |-> what, n |-> n]

----------------------------------------------------------------------------
(* main() *)

NoZip == [on |-> FALSE, files |-> <<>>]

MainStart ==
    /\ pc = "askHar"
    /\ patternInput = <<>>
    /\ patterns = <<>>
    /\ showProgress = TRUE
    /\ createZip = FALSE
    /\ zipFileName = DefaultZipName
    /\ entries = <<>>
    /\ next = 1
    /\ candidates = <<>>
    /\ total = 0
    /\ count = 0
    /\ zip = NoZip
    /\ prompts = 0
    /\ outDirMade = FALSE
    /\ harRead = FALSE
    /\ disk = <<>>
    /\ zipWrites = <<>>
    /\ console = <<>>
    /\ exits = <<>>
    /\ fatal = "none"

MatchIdle ==
    /\ mPc = "off"
    /\ mPattern = <<>>
    /\ mFilename = <<>>
    /\ mResult = FALSE

Init ==
    /\ platform \in {"posix", "win32"}
    /\ harOnDisk \in HarFiles
    /\ MainStart
    /\ MatchIdle

\* process.exit(code) after a line on the console
ExitWith(code, cause, what) ==
    /\ console' = Append(console, Line(what, 0))
    /\ exits' = Append(exits, code)
    /\ fatal' = cause
    /\ pc' = "exited"

\* a catch block that logs and lets the process end normally
ThrowExitZero(cause) == ExitWith(0, cause, "Error")

\* lines 193-196: whatever is thrown inside main is logged and ends the
\* process with status 1
Throw(cause) == ExitWith(1, cause, "Error")

\* a first prompt that does not look for the file
AskHarPathNoCheck ==
    /\ pc = "askHar"
    /\ prompts' = prompts + 1
    /\ pc' = "askOut"
    /\ UNCHANGED <<platform, harOnDisk, patternInput, patterns, showProgress,
                   createZip, zipFileName, entries, next, candidates, total,
                   count, zip, outDirMade, harRead, disk, zipWrites, console,
                   exits, fatal, matchVars>>

\* lines 67-72
AskHarPath ==
    /\ pc = "askHar"
    /\ prompts' = prompts + 1
    /\ IF harOnDisk.state = "missing"
       THEN ExitWith(1, "missingHar", "HarMissing")
       ELSE /\ pc' = "askOut"
            /\ UNCHANGED <<console, exits, fatal>>
    /\ UNCHANGED <<platform, harOnDisk, patternInput, patterns, showProgress, createZip,
                   zipFileName, entries, next, candidates, total, count, zip,
                   outDirMade, harRead, disk, zipWrites, matchVars>>

\* lines 74-76: mkdirSync succeeds or throws
AskOutDir ==
    /\ pc = "askOut"
    /\ prompts' = prompts + 1
    /\ \E ok \in BOOLEAN :
         IF ok
         THEN /\ outDirMade' = TRUE
              /\ pc' = "askPatterns"
              /\ UNCHANGED <<console, exits, fatal>>
         ELSE /\ Throw("mkdir")
              /\ UNCHANGED outDirMade
    /\ UNCHANGED <<platform, harOnDisk, patternInput, patterns, showProgress, createZip,
                   zipFileName, entries, next, candidates, total, count, zip,
                   harRead, disk, zipWrites, matchVars>>

\* lines 78-82
AskPatterns ==
    /\ pc = "askPatterns"
    /\ prompts' = prompts + 1
    /\ \E answer \in PatternAnswers :
         /\ patternInput' = ask(answer)
         /\ patterns' = parsePatterns(patternInput')
    /\ pc' = "askProgress"
    /\ UNCHANGED <<platform, harOnDisk, showProgress, createZip,
                   zipFileName, entries, next, candidates, total, count, zip,
                   outDirMade, harRead, disk, zipWrites, console, exits,
                   fatal, matchVars>>

\* lines 84-85
AskProgress ==
    /\ pc = "askProgress"
    /\ prompts' = prompts + 1
    /\ \E answer \in ProgressAnswers : showProgress' = progressWanted(ask(answer))
    /\ pc' = "askZip"
    /\ UNCHANGED <<platform, harOnDisk, patternInput, patterns, createZip,
                   zipFileName, entries, next, candidates, total, count, zip,
                   outDirMade, harRead, disk, zipWrites, console, exits,
                   fatal, matchVars>>

\* lines 87-91
AskZip ==
    /\ pc = "askZip"
    /\ prompts' = prompts + 1
    /\ \E answer \in ZipAnswers : createZip' = zipWanted(ask(answer))
    /\ pc' = IF createZip' THEN "askZipName" ELSE "read"
    /\ UNCHANGED <<platform, harOnDisk, patternInput, patterns, showProgress,
                   zipFileName, entries, next, candidates, total, count, zip,
                   outDirMade, harRead, disk, zipWrites, console, exits,
                   fatal, matchVars>>

\* lines 92-97
AskZipName ==
    /\ pc = "askZipName"
    /\ prompts' = prompts + 1
    /\ \E answer \in ZipNameAnswers : zipFileName' = zipFileNameOf(ask(answer))
    /\ pc' = "read"
    /\ UNCHANGED <<platform, harOnDisk, patternInput, patterns, showProgress, createZip,
                   entries, next, candidates, total, count, zip,
                   outDirMade, harRead, disk, zipWrites, console, exits,
                   fatal, matchVars>>

\* lines 100-101
ReadHar ==
    /\ pc = "read"
    /\ IF harOnDisk.state \in {"unreadable", "missing"}
       THEN /\ Throw("read")
            /\ UNCHANGED harRead
       ELSE /\ harRead' = TRUE
            /\ pc' = "parse"
            /\ UNCHANGED <<console, exits, fatal>>
    /\ UNCHANGED <<platform, harOnDisk, patternInput, patterns, showProgress, createZip,
                   zipFileName, entries, next, candidates, total, count, zip,
                   prompts, outDirMade, disk, zipWrites, matchVars>>

\* lines 102-108; a log.entries that cannot be iterated makes line 109 throw
ParseHar ==
    /\ pc = "parse"
    /\ CASE harOnDisk.state = "badjson" ->
              /\ Throw("parse")
              /\ UNCHANGED <<entries, next, candidates>>
         [] harOnDisk.state = "notiterable" ->
              /\ Throw("type")
              /\ UNCHANGED <<entries, next, candidates>>
         [] OTHER ->
              /\ entries' = harOnDisk.items
              /\ next' = 1
              /\ candidates' = <<>>
              /\ console' = Append(console, Line("Found", Len(harOnDisk.items)))
              /\ pc' = "filter"
              /\ UNCHANGED <<exits, fatal>>
    /\ UNCHANGED <<platform, harOnDisk, patternInput, patterns, showProgress, createZip,
                   zipFileName, total, count, zip, prompts, outDirMade,
                   harRead, disk, zipWrites, matchVars>>

\* lines 109-123: one iteration of the first pass
FilterStep ==
    /\ pc = "filter"
    /\ next <= Len(entries)
    /\ candidates' = candidates \o candidateOf(entries[next], patterns, next)
    /\ next' = next + 1
    /\ UNCHANGED <<platform, harOnDisk, pc, patternInput, patterns, showProgress, createZip,
                   zipFileName, entries, total, count, zip, prompts,
                   outDirMade, harRead, disk, zipWrites, console, exits,
                   fatal, matchVars>>

\* updateProgress(current, total) or the "Saved" line (lines 170-174)
report(current, tot) ==
    IF showProgress THEN Line("Progress", current) ELSE Line("Saved", current)

\* lines 125-141: the first pass is over
FilterDone ==
    /\ pc = "filter"
    /\ next > Len(entries)
    /\ total' = Len(candidates)
    /\ IF total' = 0
       THEN /\ ExitWith(0, "none", "NoMatch")
            /\ UNCHANGED <<zip, count, next>>
       ELSE /\ zip' = [on |-> createZip, files |-> <<>>]
            /\ count' = 0
            /\ next' = 1
            /\ console' = console \o <<Line("WillExtract", total')>>
                            \o (IF showProgress THEN <<Line("Progress", 0)>> ELSE <<>>)
            /\ pc' = "write"
            /\ UNCHANGED <<exits, fatal>>
    /\ UNCHANGED <<platform, harOnDisk, patternInput, patterns, showProgress, createZip,
                   zipFileName, entries, candidates, prompts,
                   outDirMade, harRead, disk, zipWrites, matchVars>>

\* a loop that catches a failed write, logs it and goes on to the next item
WriteStepContinue ==
    /\ pc = "write"
    /\ next <= Len(candidates)
    /\ LET item == candidates[next]
           outFile == outFileOf(count, finalNameOf(item.baseName, item.mime))
       IN \E ok \in BOOLEAN :
            IF ok
            THEN /\ disk' = Append(disk, [path |-> pathJoin(platform, OutDir, outFile),
                                          name |-> outFile,
                                          data |-> bufferOf(item), item |-> next])
                 /\ zip' = IF zip.on
                           THEN [zip EXCEPT !.files = zipFile(@, outFile, bufferOf(item))]
                           ELSE zip
                 /\ count' = count + 1
                 /\ console' = Append(console, report(count', total))
                 /\ UNCHANGED fatal
            ELSE /\ console' = Append(console, Line("Error", 0))
                 /\ fatal' = "write"
                 /\ UNCHANGED <<disk, zip, count>>
    /\ next' = next + 1
    /\ UNCHANGED <<platform, harOnDisk, patternInput, patterns, showProgress,
                   createZip, zipFileName, entries, candidates, total, prompts,
                   outDirMade, harRead, zipWrites, pc, exits, matchVars>>

\* lines 143-175: one iteration of the materialization loop; writeFileSync
\* succeeds or throws
WriteStep ==
    /\ pc = "write"
    /\ next <= Len(candidates)
    /\ LET item == candidates[next]
           buffer == bufferOf(item)
           outFile == outFileOf(count, finalNameOf(item.baseName, item.mime))
           outPath == pathJoin(platform, OutDir, outFile)
       IN \E ok \in BOOLEAN :
            IF ok
            THEN /\ disk' = Append(disk, [path |-> outPath, name |-> outFile,
                                          data |-> buffer, item |-> next])
                 /\ zip' = IF zip.on
                           THEN [zip EXCEPT !.files = zipFile(@, outFile, buffer)]
                           ELSE zip
                 /\ count' = count + 1
                 /\ next' = next + 1
                 /\ console' = Append(console, report(count', total))
                 /\ UNCHANGED <<pc, exits, fatal>>
            ELSE /\ Throw("write")
                 /\ UNCHANGED <<disk, zip, count, next>>
    /\ UNCHANGED <<platform, harOnDisk, patternInput, patterns, showProgress, createZip,
                   zipFileName, entries, candidates, total, prompts,
                   outDirMade, harRead, zipWrites, matchVars>>

\* lines 177-192 up to the await: the loop is over
WriteDone ==
    /\ pc = "write"
    /\ next > Len(candidates)
    /\ IF zip.on /\ count > 0
       THEN /\ console' = Append(console, Line("Extracted", count))
            /\ pc' = "zipGenerate"
            /\ UNCHANGED <<exits, fatal>>
       ELSE /\ console' = console \o <<Line("Extracted", count), Line("Done", 0)>>
            /\ exits' = Append(exits, 0)
            /\ pc' = "exited"
            /\ UNCHANGED fatal
    /\ UNCHANGED <<platform, harOnDisk, patternInput, patterns, showProgress, createZip,
                   zipFileName, entries, next, candidates, total, count, zip,
                   prompts, outDirMade, harRead, disk, zipWrites, matchVars>>

\* lines 181-192: the archive is serialized, written, and main returns; the
\* serialization or the write may throw
ZipGenerate ==
    /\ pc = "zipGenerate"
    /\ \E outcome \in {"ok", "zipGenerate", "zipWrite"} :
         IF outcome = "ok"
         THEN /\ zipWrites' = Append(zipWrites, [name |-> zipFileName,
                                                 files |-> zip.files,
                                                 after |-> Len(disk)])
              /\ console' = console \o <<Line("ZipWritten", 0), Line("Done", 0)>>
              /\ exits' = Append(exits, 0)
              /\ pc' = "exited"
              /\ UNCHANGED fatal
         ELSE /\ Throw(outcome)
              /\ UNCHANGED zipWrites
    /\ UNCHANGED <<platform, harOnDisk, patternInput, patterns, showProgress, createZip,
                   zipFileName, entries, next, candidates, total, count, zip,
                   prompts, outDirMade, harRead, disk, matchVars>>

Next ==
    \/ AskHarPath
    \/ AskOutDir
    \/ AskPatterns
    \/ AskProgress
    \/ AskZip
    \/ AskZipName
    \/ ReadHar
    \/ ParseHar
    \/ FilterStep
    \/ FilterDone
    \/ WriteStep
    \/ WriteDone
    \/ ZipGenerate

Spec == Init /\ [][Next]_vars

----------------------------------------------------------------------------
(* matchPattern on its own: one pattern, one filename *)

PatternChars == {"a", "B", "*", ".", "?", "+", "$", "\\"}
NameChars == {"A", "b", "."}

MainIdle ==
    /\ platform = "posix"
    /\ harOnDisk = [state |-> "missing", items |-> <<>>]
    /\ MainStart

InitMatch ==
    /\ mPc = "call"
    /\ mPattern \in StringsOver(PatternChars, 1, MaxPatLen)
    /\ mFilename \in StringsOver(NameChars, 1, MaxNameLen)
    /\ mResult = FALSE
    /\ MainIdle

MatchCall ==
    /\ mPc = "call"
    /\ mResult' = matchPattern(mFilename, <<mPattern>>)
    /\ mPc' = "returned"
    /\ UNCHANGED <<mPattern, mFilename, mainVars>>

NextMatch == MatchCall

SpecMatch == InitMatch /\ [][NextMatch]_vars

----------------------------------------------------------------------------
(* Properties *)

\* F equals P read as a wildcard expression: each "*" of P stands for a run
\* of zero or more characters, every other character for itself, letters
\* compared without regard to case, the whole of F consumed
RECURSIVE WildcardFrom(_, _, _, _)
WildcardFrom(P, pi, F, fi) ==
    IF pi > Len(P) THEN fi > Len(F)
    ELSE IF P[pi] = "*"
         THEN \E skip \in 0..(Len(F) + 1 - fi) : WildcardFrom(P, pi + 1, F, fi + skip)
    ELSE /\ fi <= Len(F)
         /\ toLowerCaseChar(P[pi]) = toLowerCaseChar(F[fi])
         /\ WildcardFrom(P, pi + 1, F, fi + 1)

WildcardEquals(P, F) == WildcardFrom(P, 1, F, 1)

\* C1: matchPattern(F, [P]) is true exactly when F, compared case-insensitively
\* and as a whole, equals P with each "*" standing for any run of characters
\* and every other character, regex-special ones included, standing for itself.
C1_MatchIsWildcard ==
    mPc = "returned" => (mResult <=> WildcardEquals(mPattern, mFilename))

C1_Witness ==
    /\ mPc = "returned"
    /\ mPattern = <<"*", ".", "B">>
    /\ mFilename = <<"A", ".", "b">>
    /\ mResult

\* the entries the spec's filter predicate keeps
Qualifies(entry, pats) ==
    /\ entry.url # <<>>
    /\ entry.hasContent
    /\ entry.text # <<>>
    /\ startsWith(entry.mimeType, IMAGE_SLASH)
    /\ \E k \in 1..Len(pats) :
         WildcardEquals(pats[k], safeFilename(split(entry.url, "?")[1]))

\* the entries the first pass has gone through
Scanned == IF pc = "filter" THEN next - 1 ELSE Len(entries)

\* C2: the candidate list is exactly the subsequence, in HAR order, of the
\* entries with a URL, a content text, an image mime type and a base filename
\* matching one of the patterns; an entry without text or with a non-image
\* mime type is never a candidate.
C2_CandidatesAreTheMatchingEntries ==
    /\ \A k \in 1..Len(candidates) :
         /\ candidates[k].at \in 1..Len(entries)
         /\ candidates[k].reqUrl = entries[candidates[k].at].url
         /\ candidates[k].text = entries[candidates[k].at].text
         /\ candidates[k].mime = entries[candidates[k].at].mimeType
         /\ entries[candidates[k].at].hasContent
         /\ entries[candidates[k].at].text # <<>>
         /\ startsWith(entries[candidates[k].at].mimeType, IMAGE_SLASH)
    /\ \A j, k \in 1..Len(candidates) : j < k => candidates[j].at < candidates[k].at
    /\ {candidates[k].at : k \in 1..Len(candidates)}
         = {e \in 1..Scanned : Qualifies(entries[e], patterns)}

C2_Witness ==
    /\ pc = "write"
    /\ entries = <<EHtml, EPng>>
    /\ Len(patterns) = 2
    /\ Len(candidates) = 1
    /\ candidates[1].at = 2

\* k written as three decimal digits, for k below 1000
ThreeDigits(k) ==
    <<Digits[(k \div 100) + 1], Digits[((k \div 10) % 10) + 1], Digits[(k % 10) + 1]>>

Printed(what) == {j \in 1..Len(console) : console[j].line = what}

\* C3: the k-th write (k from 0) is for the k-th candidate and its filename
\* starts with k as three digits and "-"; when the loop is over without a
\* failed write, exactly N files were written and "Extracted N" is printed.
C3_OneIndexedWritePerCandidate ==
    /\ \A k \in 1..Len(disk) :
         /\ disk[k].item = k
         /\ startsWith(disk[k].name, ThreeDigits(k - 1) \o <<"-">>)
    /\ Len(disk) <= Len(candidates)
    /\ pc \in {"write", "zipGenerate"} => total = Len(candidates) /\ total >= 1
    /\ \A j \in Printed("Extracted") :
         /\ console[j].n = Len(candidates)
         /\ Len(disk) = Len(candidates)
         /\ total = Len(candidates)

C3_Witness ==
    /\ Printed("Extracted") # {}
    /\ Len(disk) = 2
    /\ startsWith(disk[2].name, <<"0", "0", "1", "-">>)

\* C4: the files of two distinct candidates have different names, so no
\* file written by a run is overwritten by a later write of the same run.
C4_NoWriteOverwritesAnother ==
    \A j, k \in 1..Len(disk) :
        j < k => disk[j].name # disk[k].name /\ disk[j].path # disk[k].path

FatalCauses == {"missingHar", "mkdir", "read", "parse", "type", "write",
                "zipGenerate", "zipWrite"}

\* C5 as stated: status 1 exactly when the source file is missing, the JSON
\* does not parse, or directory creation, a file write or the archive
\* serialization/write fails; status 0 otherwise.
C5_StatusOneOnlyForListedErrors ==
    exits # <<>> =>
        (exits[1] = 1 <=> fatal \in {"missingHar", "parse", "mkdir", "write",
                                    "zipGenerate", "zipWrite"})

\* C5, amended: a run ends with one exit status, 1 exactly when the source
\* file is missing or anything was thrown inside main (a failed read of the
\* HAR file and a type error on a malformed HAR included), 0 otherwise; a
\* run in which nothing matched ends with 0 and writes no image and no zip.
C5_OneExitStatus ==
    /\ Len(exits) <= 1
    /\ pc = "exited" <=> exits # <<>>
    /\ fatal \in FatalCauses \cup {"none"}
    /\ exits # <<>> => (exits[1] = 1 <=> fatal \in FatalCauses)
    /\ exits # <<>> => (exits[1] = 0 <=> fatal = "none")
    /\ fatal # "none" => exits # <<>>
    /\ Printed("NoMatch") # {} =>
         exits = <<0>> /\ disk = <<>> /\ zipWrites = <<>> /\ candidates = <<>>

C5_Witness ==
    /\ exits = <<1>>
    /\ fatal = "read"
    /\ harOnDisk.state = "unreadable"

\* C6: a missing source file ends the run with status 1 right after the
\* first prompt, with no output directory, no further prompt and no file
\* written; the output directory is made before the HAR file is read and
\* before any image file is written.
C6_MissingSourceStopsAtOnce ==
    /\ harOnDisk.state = "missing" /\ prompts >= 1 =>
         /\ pc = "exited"
         /\ exits = <<1>>
         /\ prompts = 1
         /\ ~outDirMade
         /\ ~harRead
         /\ disk = <<>>
         /\ zipWrites = <<>>
    /\ harRead => outDirMade
    /\ disk # <<>> => outDirMade /\ harRead

C6_Witness ==
    /\ harOnDisk.state = "missing"
    /\ pc = "exited"
    /\ prompts = 1

\* C7: with zip creation enabled, a run that extracts N >= 1 candidates
\* without error writes one zip file, after the N image files, whose entries
\* have the names and bytes of the N files in the output directory; with zip
\* creation disabled no zip file is written.
C7_ZipMirrorsOutputDirectory ==
    /\ ~createZip => zipWrites = <<>>
    /\ Len(zipWrites) <= 1
    /\ createZip /\ exits = <<0>> /\ total >= 1 =>
         /\ Len(zipWrites) = 1
         /\ zipWrites[1].after = total
         /\ Len(disk) = total
         /\ Len(zipWrites[1].files) = total
         /\ \A k \in 1..total :
              /\ disk[k].path = Append(OutDir, zipWrites[1].files[k].name)
              /\ disk[k].data = zipWrites[1].files[k].data

\* C8: whatever is answered to the pattern prompt, the pattern list holds
\* one or more patterns, each trimmed and non-empty; the empty answer gives
\* the default pattern alone.
C8_PatternListNeverEmpty ==
    prompts >= 3 =>
        /\ Len(patterns) >= 1
        /\ \A k \in 1..Len(patterns) :
             patterns[k] # <<>> /\ trim(patterns[k]) = patterns[k]
        /\ patternInput = <<>> => patterns = <<DefaultPattern>>

\* C9: when the write of the k-th candidate fails the run stops there: the
\* files of the candidates before it are written, nothing after it is
\* written or skipped over, no "Extracted" line is printed, no zip is
\* written, and the status is 1.
C9_FailedWriteAborts ==
    /\ fatal = "write" =>
         /\ pc = "exited"
         /\ exits = <<1>>
         /\ next = count + 1
         /\ next <= Len(candidates)
         /\ Len(disk) = count
         /\ \A k \in 1..Len(disk) : disk[k].item = k
         /\ Printed("Extracted") = {}
         /\ zipWrites = <<>>
    /\ \A j \in Printed("Error") : j = Len(console) /\ pc = "exited"

C9_Witness ==
    /\ fatal = "write"
    /\ Len(disk) = 1
    /\ Len(candidates) = 2
    /\ createZip

\* C10: every output filename is non-empty, holds no "/" and is neither "."
\* nor "..", so every image file is written as a direct child of the output
\* directory.
C10_WritesStayInOutputDirectory ==
    \A k \in 1..Len(disk) :
        /\ disk[k].name # <<>>
        /\ "/" \notin Range(disk[k].name)
        /\ disk[k].name \notin {<<".">>, <<".", ".">>}
        /\ Len(disk[k].path) = Len(OutDir) + 1
        /\ SubSeq(disk[k].path, 1, Len(OutDir)) = OutDir

====
